---- MODULE Spec2Model ----
(***************************************************************************)
(* Document search demo: data_vectorizer.py embeds the texts of data.json  *)
(* into embeddings.npy, search.py ranks the rows of embeddings.npy against *)
(* a query by cosine similarity and joins the hits to data.json, server.py *)
(* wraps one DocumentSearcher behind /health and /search.                  *)
(*                                                                         *)
(* Python values: None is the empty tuple, a present value x is <<x>>.     *)
(* A str is a sequence of characters.  JSON values whose Python type the   *)
(* code tests carry a type tag.  A document object is a record; a key the  *)
(* object lacks is a field the record lacks.                               *)
(***************************************************************************)
EXTENDS Integers, Sequences, FiniteSets, TLC

VARIABLES
  dataFile,    \* data.json: None when the file is missing, else its JSON value
  embFile,     \* embeddings.npy: None when missing, else the matrix
  stableSort,  \* the build's np.argsort keeps equal scores in index order
  proc,        \* the server process: "off", "serving" or "exited"
  searcher,    \* server.py's global `searcher`
  req,         \* the HTTP request being answered, or None
  resp,        \* its response, or None
  searched,    \* the handler called searcher.search (server.py line 120)
  cli,         \* a run of search.py's main: "idle", "printed" or "exit1"
  rank,        \* the find_similar_documents call of the request or run, or None
  booted,      \* history: `searcher` as startup or initialize_searcher left it
  prevCode     \* history: status code of the response sent before, 0 if none

vars ==
  <<dataFile, embFile, stableSort, proc, searcher, req, resp, searched, cli, rank,
    booted, prevCode>>

\* Most documents in data.json.
MaxDocs == 2
\* Largest integer top_k a client sends.
MaxTopK == 3
\* server.py line 131 and search.py line 149: text[:200].
PreviewLen == 200
\* server.py line 111: data.get('top_k', 5).
DefaultTopK == 5

None == <<>>
Some(x) == <<x>>

Min(a, b) == IF a < b THEN a ELSE b
Max(a, b) == IF a < b THEN b ELSE a

(***************************************************************************)
(* Texts.  Characters are "a", "b", "c" and ".".                           *)
(***************************************************************************)
Chr(i) == IF i % 3 = 0 THEN "a" ELSE IF i % 3 = 1 THEN "b" ELSE "c"
MkText(first, n, last) ==
  [i \in 1..n |-> IF i = 1 THEN first ELSE IF i = n THEN last ELSE Chr(i)]

TextShort == MkText("a", 2, "b")
TextExact == MkText("a", PreviewLen, "a")
TextLong == MkText("a", PreviewLen + 1, "a")

IsPrefix(p, t) == Len(p) <= Len(t) /\ SubSeq(t, 1, Len(p)) = p

(***************************************************************************)
(* The sentence-embedding model (SentenceTransformer.encode) is external   *)
(* and opaque: a deterministic map from a text to a vector of fixed width. *)
(* Here the vector is read off the first and last character.               *)
(***************************************************************************)
Feature(c) == IF c = "a" THEN 1 ELSE IF c = "b" THEN 0 ELSE -1
Embed(t) == IF Len(t) = 0 THEN <<0, 0>> ELSE <<Feature(t[1]), Feature(t[Len(t)])>>
Encode(sentences) == [i \in 1..Len(sentences) |-> Embed(sentences[i])]

(***************************************************************************)
(* JSON values.                                                            *)
(***************************************************************************)
JStr(s) == [type |-> "str", s |-> s]
JInt(n) == [type |-> "int", n |-> n]
JBool(b) == [type |-> "bool", n |-> IF b THEN 1 ELSE 0]
JFloat(n) == [type |-> "float", n |-> n]
JNull == [type |-> "null"]
JList(items) == [type |-> "list", items |-> items]
JDict(fields) == [type |-> "dict", fields |-> fields]

\* Python truth value of a JSON value (`not x`).
Truthy(v) ==
  CASE v.type = "str" -> Len(v.s) > 0
    [] v.type \in {"int", "float", "bool"} -> v.n # 0
    [] v.type = "null" -> FALSE
    [] v.type = "list" -> Len(v.items) > 0
    [] v.type = "dict" -> DOMAIN v.fields # {}

\* isinstance(v, int): bool is a subclass of int.
IsInstanceInt(v) == v.type \in {"int", "bool"}

HasKey(d, k) == k \in DOMAIN d

(***************************************************************************)
(* data.json                                                               *)
(***************************************************************************)
DocPool ==
  { [id |-> 1, text |-> TextShort],
    [id |-> 1, text |-> TextExact],
    [id |-> 2, text |-> TextLong],
    [id |-> 3],
    [id |-> 4, text |-> <<>>] }

SeqsUpTo(S, n) == UNION { [1..m -> S] : m \in 0..n }

DocSeqs == SeqsUpTo(DocPool, MaxDocs)

DataFiles ==
  { JList(ds) : ds \in DocSeqs }
    \cup { JDict([documents |-> ds]) : ds \in DocSeqs }
    \cup { JDict([text |-> JStr(TextShort)]),
           JDict([text |-> JList(<<TextShort, TextExact>>)]),
           JDict([title |-> JStr(TextShort)]) }

\* Embedding files that were not produced from the present data.json: no
\* rows, rows of another model's width, or the rows of an older corpus.
ForeignMatrices == { <<>>, << <<1>> >>, << <<1, 0>>, <<0, 0>>, <<-1, 0>> >> }

(***************************************************************************)
(* data_vectorizer.py                                                      *)
(***************************************************************************)
\* The texts of the documents of `docs` that are objects with a text field,
\* in order (lines 71-77 and 83-86).
RECURSIVE TextsOf(_)
TextsOf(docs) ==
  IF docs = <<>> THEN <<>>
  ELSE LET rest == TextsOf(Tail(docs))
       IN IF HasKey(Head(docs), "text") THEN <<Head(docs).text>> \o rest ELSE rest

\* DataVectorizer.extract_sentences with text_field = 'text'.
ExtractSentences(raw) ==
  IF raw.type = "list" THEN TextsOf(raw.items)
  ELSE IF raw.type = "dict" THEN
    IF HasKey(raw.fields, "documents") THEN TextsOf(raw.fields.documents)
    ELSE IF HasKey(raw.fields, "text") THEN
      IF raw.fields.text.type = "list" THEN raw.fields.text.items
      ELSE <<raw.fields.text.s>>
    ELSE <<>>
  ELSE <<>>

\* DataVectorizer.process_json_data: None when vectorize_sentences raises
\* ValueError on an empty sentence list, else the embedding matrix.
ProcessJsonData(raw) ==
  LET sentences == ExtractSentences(raw)
  IN IF sentences = <<>> THEN None ELSE Some(Encode(sentences))

(***************************************************************************)
(* search.py: DocumentSearcher                                             *)
(***************************************************************************)
\* DocumentSearcher.__init__
NewSearcher == [embeddings |-> None, document_data |-> None, document_ids |-> None]

\* DocumentSearcher.load_embeddings
LoadEmbeddings(s, matrix) == [s EXCEPT !.embeddings = Some(matrix)]

\* `'documents' in self.document_data`: key test on an object, element test
\* on an array (an array of document objects never holds that string).
HasDocuments(json) == json.type = "dict" /\ HasKey(json.fields, "documents")

\* DocumentSearcher.load_document_data
LoadDocumentData(s, json) ==
  IF HasDocuments(json)
    THEN [s EXCEPT !.document_data = Some(json),
                   !.document_ids =
                      Some([i \in 1..Len(json.fields.documents) |->
                              json.fields.documents[i].id])]
    ELSE [s EXCEPT !.document_data = Some(json)]

\* DocumentSearcher.vectorize_query: model.encode([query]) is a 1 x d matrix.
VectorizeQuery(query) == Encode(<<query>>)

Dot(u, v) == LET F[i \in 0..Len(u)] == IF i = 0 THEN 0 ELSE F[i - 1] + u[i] * v[i]
             IN F[Len(u)]

Sgn(x) == IF x > 0 THEN 1 ELSE IF x < 0 THEN -1 ELSE 0

\* Cosine of the angle between u and v, as the signed square scaled by 4
\* (the components are -1, 0 and 1 in at most two dimensions, so the value
\* is an integer and orders as the cosine does).  sklearn normalises a zero
\* vector to itself: its cosine with anything is 0.
Cosine(u, v) ==
  LET d == Dot(u, v)
      nn == Dot(u, u) * Dot(v, v)
  IN IF nn = 0 THEN 0 ELSE Sgn(d) * ((4 * d * d) \div nn)

\* sklearn.metrics.pairwise.cosine_similarity(q, E)[0]
CosineSimilarity(q, E) == [i \in 1..Len(E) |-> Cosine(q[1], E[i])]

\* np.argsort(similarities): the indices in ascending order of score.  The
\* default kind is not a stable sort: among equal scores the order is the
\* build's, here ascending index (stable) or descending index.
ArgSort(sims, stable) ==
  LET n == Len(sims)
      Before(i, j) ==
        \/ sims[i] < sims[j]
        \/ sims[i] = sims[j] /\ (IF stable THEN i < j ELSE i > j)
      Pos(i) == 1 + Cardinality({j \in 1..n : Before(j, i)})
  IN [p \in 1..n |-> CHOOSE i \in 1..n : Pos(i) = p]

\* s[::-1]
Reverse(s) == [i \in 1..Len(s) |-> s[Len(s) + 1 - i]]

\* SliceTo with the cut one entry late, as [:top_k + 1] would make it.
SliceToOneLate(s, k) ==
  IF k >= 0 THEN SubSeq(s, 1, Min(k + 1, Len(s)))
  ELSE SubSeq(s, 1, Max(0, Len(s) + k))

\* s[:k] for any integer k
SliceTo(s, k) ==
  IF k >= 0 THEN SubSeq(s, 1, Min(k, Len(s)))
  ELSE SubSeq(s, 1, Max(0, Len(s) + k))

\* TopIndices with the reversal [::-1] left out.
TopIndicesAscending(sims, top_k, stable) == SliceTo(ArgSort(sims, stable), top_k)

\* line 99: np.argsort(similarities)[::-1][:top_k]
TopIndices(sims, top_k, stable) == SliceTo(Reverse(ArgSort(sims, stable)), top_k)

\* lines 106-111: the first document whose id equals doc_id, else None.
FindDocData(docs, doc_id) ==
  IF \E j \in 1..Len(docs) : docs[j].id = doc_id
    THEN Some(docs[CHOOSE j \in 1..Len(docs) :
                     /\ docs[j].id = doc_id
                     /\ \A h \in 1..(j - 1) : docs[h].id # doc_id])
    ELSE None

Raise(e) == [ok |-> FALSE, error |-> e]
Return(r) == [ok |-> TRUE, results |-> r]

\* lines 101-115: the result tuples (doc_id, similarity_score, doc_data).
JoinResults(s, sims, top) ==
  IF top = <<>> THEN Return(<<>>)
  ELSE IF s.document_ids = None THEN Raise("TypeError: 'NoneType' object is not subscriptable")
  ELSE IF \E j \in 1..Len(top) : top[j] > Len(s.document_ids[1])
    THEN Raise("IndexError: list index out of range")
  ELSE Return([j \in 1..Len(top) |->
                 LET doc_id == s.document_ids[1][top[j]]
                 IN [doc_id |-> doc_id,
                     similarity_score |-> sims[top[j]],
                     doc_data |-> FindDocData(s.document_data[1].fields.documents, doc_id)]])

\* DocumentSearcher.find_similar_documents
FindSimilarDocuments(s, query_embedding, top_k, stable) ==
  IF s.embeddings = None THEN Raise("No embeddings loaded. Load embeddings first.")
  ELSE IF s.document_data = None
    THEN Raise("No document data loaded. Load document data first.")
  ELSE LET E == s.embeddings[1]
       IN IF Len(E) = 0 THEN Raise("Found array with 0 sample(s)")
          ELSE IF Len(E[1]) # Len(query_embedding[1])
            THEN Raise("Incompatible dimension for X and Y matrices")
          ELSE LET sims == CosineSimilarity(query_embedding, E)
               IN JoinResults(s, sims, TopIndices(sims, top_k, stable))

\* DocumentSearcher.search with a str query.
Search(s, query, top_k, stable) ==
  FindSimilarDocuments(s, VectorizeQuery(query), top_k, stable)

\* The find_similar_documents call search(query, top_k) makes on s.
RankCall(s, query, top_k, stable) ==
  [s |-> s, q |-> VectorizeQuery(query), top_k |-> top_k,
   out |-> Search(s, query, top_k, stable)]

(***************************************************************************)
(* server.py                                                               *)
(***************************************************************************)
NA == <<"N", "/", "A">>
Ellipsis == <<".", ".", ".">>

\* doc_data.get(key, default) if doc_data else default
GetOr(doc_data, key, default) ==
  IF doc_data # None /\ HasKey(doc_data[1], key) THEN doc_data[1][key] ELSE default

\* TextPreview with the slice taken after the ellipsis is appended, as
\* (text + "...")[:200] would make it.
TextPreviewSliceLast(doc_data) ==
  IF doc_data # None /\ HasKey(doc_data[1], "text") /\ Len(doc_data[1].text) > 0
    THEN SliceTo(doc_data[1].text \o Ellipsis, PreviewLen)
    ELSE NA

\* line 131: doc_data.get('text', 'N/A')[:200] + "..." if doc_data and
\* doc_data.get('text') else 'N/A'
TextPreview(doc_data) ==
  IF doc_data # None /\ HasKey(doc_data[1], "text") /\ Len(doc_data[1].text) > 0
    THEN SliceTo(doc_data[1].text, PreviewLen) \o Ellipsis
    ELSE NA

\* lines 125-134
FormatResult(r) ==
  [document_id |-> r.doc_id,
   similarity_score |-> r.similarity_score,
   title |-> GetOr(r.doc_data, "title", NA),
   category |-> GetOr(r.doc_data, "category", NA),
   author |-> GetOr(r.doc_data, "author", NA),
   text_preview |-> TextPreview(r.doc_data),
   date |-> GetOr(r.doc_data, "date", NA),
   tags |-> GetOr(r.doc_data, "tags", <<>>)]

ErrorResponse(code, msg) == [code |-> code, error |-> msg]

\* lines 144-147: f"Search failed: {str(e)}" with status 500.
SearchFailed(e) == [code |-> 500, error |-> "Search failed", cause |-> e]

\* initialize_searcher: the value it leaves in the global and what it returns.
\* modelLoads: DocumentSearcher() constructs (the embedding model loads).
InitializeSearcher(old, modelLoads, embF, dataF) ==
  IF ~modelLoads THEN [ok |-> FALSE, searcher |-> old]
  ELSE IF embF = None \/ dataF = None THEN [ok |-> FALSE, searcher |-> Some(NewSearcher)]
  ELSE [ok |-> TRUE,
        searcher |-> Some(LoadDocumentData(LoadEmbeddings(NewSearcher, embF[1]), dataF[1]))]

\* health(): the JSON body.
HealthBody(g) == [status |-> "healthy", searcher_initialized |-> g # None]

\* lines 111-117: top_k as read from the body, and whether it is rejected.
TopKOf(data) == IF HasKey(data.fields, "top_k") THEN data.fields.top_k ELSE JInt(DefaultTopK)
TopKRejected(top_k) == ~IsInstanceInt(top_k) \/ top_k.n < 1

\* search_documents(): the response, whether searcher.search was called, and
\* the ranking call it made if it got that far.  data is request.get_json();
\* a request without a JSON body is the null body.
SearchDocuments(g, data, stable) ==
  LET answer(r) == [resp |-> r, searched |-> FALSE, rank |-> None]
  IN
  IF g = None THEN answer(ErrorResponse(500, "Document searcher not initialized"))
  ELSE IF ~Truthy(data) THEN answer(ErrorResponse(400, "No JSON data provided"))
  ELSE IF data.type # "dict"
    THEN answer(SearchFailed("AttributeError: object has no attribute 'get'"))
  ELSE
    LET query == IF HasKey(data.fields, "query") THEN data.fields.query ELSE JNull
        top_k == TopKOf(data)
    IN
    IF ~Truthy(query)
      THEN answer(ErrorResponse(400, "No 'query' field provided in request body"))
    ELSE IF TopKRejected(top_k)
      THEN answer(ErrorResponse(400, "'top_k' must be a positive integer"))
    ELSE IF query.type # "str"
      THEN [resp |-> SearchFailed("TypeError: the query is not text"),
            searched |-> TRUE, rank |-> None]
    ELSE
      LET call == RankCall(g[1], query.s, top_k.n, stable)
      IN [searched |-> TRUE,
          rank |-> Some(call),
          resp |->
            IF ~call.out.ok THEN SearchFailed(call.out.error)
            ELSE [code |-> 200,
                  query |-> query.s,
                  top_k |-> top_k,
                  total_results |-> Len(call.out.results),
                  results |-> [i \in 1..Len(call.out.results) |->
                                 FormatResult(call.out.results[i])]]]

(***************************************************************************)
(* Requests and command lines.                                             *)
(***************************************************************************)
Queries == { JStr(<<>>), JStr(TextShort), JInt(7) }

TopKs ==
  { JInt(k) : k \in (-1)..MaxTopK }
    \cup { JFloat(2), JStr(<<"2">>), JBool(TRUE), JBool(FALSE), JNull }

Bodies ==
  { JNull, JDict(<<>>), JList(<<1>>) }
    \cup { JDict([query |-> q]) : q \in Queries }
    \cup { JDict([top_k |-> t]) : t \in TopKs }
    \cup { JDict([query |-> q, top_k |-> t]) : q \in Queries, t \in TopKs }

CliQueries == { TextShort, TextExact }
CliTopKs == (-2)..MaxTopK

(***************************************************************************)
(* The state machine.                                                      *)
(***************************************************************************)
Init ==
  /\ dataFile \in {None} \cup { Some(f) : f \in DataFiles }
  /\ embFile \in {None} \cup { Some(m) : m \in ForeignMatrices }
  /\ stableSort \in BOOLEAN
  /\ proc = "off"
  /\ searcher = None
  /\ req = None
  /\ resp = None
  /\ searched = FALSE
  /\ cli = "idle"
  /\ rank = None
  /\ booted = None
  /\ prevCode = 0

\* data_vectorizer.py main(): embeds data.json and saves embeddings.npy; a
\* missing data.json or an empty sentence list is printed and nothing saved.
\* The embedder is the offline role: it runs before the service starts.
RunVectorizer ==
  /\ proc = "off"
  /\ cli = "idle"
  /\ embFile' = IF dataFile = None \/ ProcessJsonData(dataFile[1]) = None
                  THEN embFile
                  ELSE ProcessJsonData(dataFile[1])
  /\ UNCHANGED <<dataFile, stableSort, proc, searcher, req, resp, searched, cli, rank, booted, prevCode>>

\* search.py main() with arguments query and --top-k: its own process with
\* its own DocumentSearcher.
CliSearch(query, top_k) ==
  /\ proc = "off"
  /\ cli = "idle"
  /\ IF embFile = None \/ dataFile = None
       THEN cli' = "exit1" /\ rank' = None
       ELSE LET s == LoadDocumentData(LoadEmbeddings(NewSearcher, embFile[1]), dataFile[1])
                call == RankCall(s, query, top_k, stableSort)
            IN /\ rank' = Some(call)
               /\ cli' = IF call.out.ok THEN "printed" ELSE "exit1"
  /\ UNCHANGED <<dataFile, embFile, stableSort, proc, searcher, req, resp, searched, booted, prevCode>>

\* The command-line process ends.
CliExit ==
  /\ cli # "idle"
  /\ cli' = "idle"
  /\ rank' = None
  /\ UNCHANGED <<dataFile, embFile, stableSort, proc, searcher, req, resp, searched, booted, prevCode>>

\* server.py run as the main program (lines 164-183): initialize, exit(1) on
\* failure, else serve.
StartMain(modelLoads) ==
  /\ proc = "off"
  /\ cli = "idle"
  /\ LET r == InitializeSearcher(searcher, modelLoads, embFile, dataFile)
     IN IF r.ok THEN proc' = "serving" /\ searcher' = r.searcher
                ELSE proc' = "exited" /\ searcher' = None
  /\ booted' = searcher'
  /\ UNCHANGED <<dataFile, embFile, stableSort, req, resp, searched, cli, rank, prevCode>>

\* server.py imported (a WSGI host, a test client): the app serves with the
\* module's initial global, `searcher = None` (line 19).
ImportModule ==
  /\ proc = "off"
  /\ cli = "idle"
  /\ proc' = "serving"
  /\ searcher' = None
  /\ booted' = None
  /\ UNCHANGED <<dataFile, embFile, stableSort, req, resp, searched, cli, rank, prevCode>>

\* The importer calls initialize_searcher().
CallInitializeSearcher(modelLoads) ==
  /\ proc = "serving"
  /\ req = None
  /\ searcher' = InitializeSearcher(searcher, modelLoads, embFile, dataFile).searcher
  /\ booted' = searcher'
  /\ UNCHANGED <<dataFile, embFile, stableSort, proc, req, resp, searched, cli, rank, prevCode>>

Request(method, path, data) == [method |-> method, path |-> path, data |-> data]

\* GET /
Home ==
  /\ proc = "serving"
  /\ req = None
  /\ req' = Some(Request("GET", "/", JNull))
  /\ resp' = Some([code |-> 200, message |-> "Document Search API"])
  /\ UNCHANGED <<dataFile, embFile, stableSort, proc, searcher, searched, cli, rank, booted, prevCode>>

\* GET /health
Health ==
  /\ proc = "serving"
  /\ req = None
  /\ req' = Some(Request("GET", "/health", JNull))
  /\ resp' = Some([code |-> 200, health |-> HealthBody(searcher)])
  /\ UNCHANGED <<dataFile, embFile, stableSort, proc, searcher, searched, cli, rank, booted, prevCode>>

\* GET /search
SearchGet ==
  /\ proc = "serving"
  /\ req = None
  /\ req' = Some(Request("GET", "/search", JNull))
  /\ resp' = Some([code |-> 200, message |-> "Use POST method for search"])
  /\ UNCHANGED <<dataFile, embFile, stableSort, proc, searcher, searched, cli, rank, booted, prevCode>>

\* SearchPost with a degraded mode: a search that fails with a server error
\* drops the searcher's embeddings.
SearchPostDegrading(data) ==
  /\ proc = "serving"
  /\ req = None
  /\ LET r == SearchDocuments(searcher, data, stableSort)
     IN /\ req' = Some(Request("POST", "/search", data))
        /\ resp' = Some(r.resp)
        /\ searched' = r.searched
        /\ rank' = r.rank
        /\ searcher' = IF searcher # None /\ r.resp.code = 500
                         THEN Some([searcher[1] EXCEPT !.embeddings = None])
                         ELSE searcher
  /\ UNCHANGED <<dataFile, embFile, stableSort, proc, cli, booted, prevCode>>

\* POST /search
SearchPost(data) ==
  /\ proc = "serving"
  /\ req = None
  /\ LET r == SearchDocuments(searcher, data, stableSort)
     IN /\ req' = Some(Request("POST", "/search", data))
        /\ resp' = Some(r.resp)
        /\ searched' = r.searched
        /\ rank' = r.rank
  /\ UNCHANGED <<dataFile, embFile, stableSort, proc, searcher, cli, booted, prevCode>>

\* The response goes out and the handler returns.
SendResponse ==
  /\ req # None
  /\ req' = None
  /\ resp' = None
  /\ searched' = FALSE
  /\ rank' = None
  /\ prevCode' = resp[1].code
  /\ UNCHANGED <<dataFile, embFile, stableSort, proc, searcher, cli, booted>>

Next ==
  \/ RunVectorizer
  \/ \E q \in CliQueries, k \in CliTopKs : CliSearch(q, k)
  \/ CliExit
  \/ \E m \in BOOLEAN : StartMain(m)
  \/ ImportModule
  \/ \E m \in BOOLEAN : CallInitializeSearcher(m)
  \/ Home
  \/ Health
  \/ SearchGet
  \/ \E d \in Bodies : SearchPost(d)
  \/ SendResponse

Spec == Init /\ [][Next]_vars

(***************************************************************************)
(* Properties of the ranking, read off the find_similar_documents call     *)
(* recorded in `rank`.                                                     *)
(***************************************************************************)
RankOk == rank # None /\ rank[1].out.ok
\* The call got past the two `is None` guards.
RankLoaded == rank # None /\ rank[1].s.embeddings # None /\ rank[1].s.document_data # None
RankMatrix == rank[1].s.embeddings[1]
RankIds == rank[1].s.document_ids[1]
RankDocs == rank[1].s.document_data[1].fields.documents
RankResults == rank[1].out.results
RankSims == CosineSimilarity(rank[1].q, RankMatrix)

\* The matrix has n >= 1 rows of the query's width and n documents are loaded.
RankAligned ==
  /\ RankLoaded
  /\ rank[1].s.document_ids # None
  /\ Len(RankMatrix) >= 1
  /\ Len(RankIds) = Len(RankMatrix)
  /\ Len(RankMatrix[1]) = Len(rank[1].q[1])

\* How often x occurs in seq.
Occurrences(seq, x) == Cardinality({i \in 1..Len(seq) : seq[i] = x})
ResultIds == [i \in 1..Len(RankResults) |-> RankResults[i].doc_id]

\* C1: on a matrix of n >= 1 rows aligned with n loaded documents and a
\* requested count k (a count: k >= 0), find_similar_documents returns without
\* error a sequence of exactly min(k, n) results; when k > n every document id
\* is returned as often as it is loaded, so all n documents, each once.
C1_ResultLength ==
  (RankAligned /\ rank[1].top_k >= 0) =>
    /\ rank[1].out.ok
    /\ Len(RankResults) = Min(rank[1].top_k, Len(RankMatrix))
    /\ rank[1].top_k > Len(RankMatrix) =>
         \A id \in {RankIds[i] : i \in 1..Len(RankIds)} :
           Occurrences(ResultIds, id) = Occurrences(RankIds, id)

\* C1 witness: more results were requested than the two aligned documents
\* there are, and both came back.
C1_Witness ==
  /\ RankAligned
  /\ Len(RankMatrix) = 2
  /\ rank[1].top_k > 2
  /\ rank[1].out.ok
  /\ Len(RankResults) = 2

\* The row a result came from, when the loaded ids are pairwise distinct.
IdsDistinct == \A i, j \in 1..Len(RankIds) : RankIds[i] = RankIds[j] => i = j
RowOf(r) == CHOOSE i \in 1..Len(RankIds) : RankIds[i] = r.doc_id

\* C2: of two documents with equal similarity scores the one with the
\* smaller original row index comes earlier in the result, and is the one
\* kept when the top-k cut falls between them.  (Stated where the ids are
\* pairwise distinct, so that a result names its row.)
C2_TiesByAscendingIndex ==
  (RankOk /\ RankAligned /\ IdsDistinct) =>
    /\ \A i, j \in 1..Len(RankResults) :
         (i < j /\ RankResults[i].similarity_score = RankResults[j].similarity_score)
           => RowOf(RankResults[i]) < RowOf(RankResults[j])
    /\ \A i \in 1..Len(RankResults) :
         \A m \in 1..Len(RankMatrix) :
           (RankSims[m] = RankResults[i].similarity_score
              /\ \A j \in 1..Len(RankResults) : RowOf(RankResults[j]) # m)
             => RowOf(RankResults[i]) < m

\* C3: each result is joined to metadata by position: the result for the
\* selected row i carries the id and the metadata object of the document at
\* position i, also when two documents carry the same id, and the metadata
\* is never missing.
C3_JoinByPosition ==
  (RankOk /\ RankAligned) =>
    LET top == TopIndices(RankSims, rank[1].top_k, stableSort)
    IN \A j \in 1..Len(RankResults) :
         /\ RankResults[j].doc_id = RankDocs[top[j]].id
         /\ RankResults[j].doc_data = Some(RankDocs[top[j]])

\* C5: find_similar_documents fails with an error whenever k < 1, whenever
\* the matrix has no rows, and whenever the query's width differs from the
\* matrix's.
C5_InvalidInputFails ==
  (RankLoaded
     /\ \/ rank[1].top_k < 1
        \/ Len(RankMatrix) = 0
        \/ Len(RankMatrix[1]) # Len(rank[1].q[1]))
    => ~rank[1].out.ok

\* C9: the scores of a returned sequence never increase from one result to
\* the next, and no row left out of the result scores strictly higher than
\* a returned one: above each returned score there are as many rows of the
\* matrix as there are results.
C9_ScoresNonIncreasing ==
  RankOk =>
    /\ \A j \in 1..(Len(RankResults) - 1) :
         RankResults[j].similarity_score >= RankResults[j + 1].similarity_score
    /\ \A j \in 1..Len(RankResults) :
         Cardinality({m \in 1..Len(RankMatrix) :
                        RankSims[m] > RankResults[j].similarity_score})
           = Cardinality({i \in 1..Len(RankResults) :
                            RankResults[i].similarity_score
                              > RankResults[j].similarity_score})

\* C9 witness: two results with different scores came back and a third row
\* was left out.
C9_Witness ==
  /\ RankOk
  /\ Len(RankResults) = 2
  /\ RankResults[1].similarity_score > RankResults[2].similarity_score
  /\ Len(RankMatrix) > 2

(***************************************************************************)
(* Embedder and searcher on the same data.json.                            *)
(***************************************************************************)
AllHaveIdAndText(docs) ==
  \A i \in 1..Len(docs) : HasKey(docs[i], "id") /\ HasKey(docs[i], "text")

\* The shapes of data.json the embedder accepts: a top-level array of
\* document objects, an object with a `documents` array, an object with a
\* direct text field; each document object carries an id and a text.
AcceptedShape(json) ==
  \/ json.type = "list" /\ AllHaveIdAndText(json.items)
  \/ json.type = "dict" /\ HasKey(json.fields, "documents")
       /\ AllHaveIdAndText(json.fields.documents)
  \/ json.type = "dict" /\ ~HasKey(json.fields, "documents") /\ HasKey(json.fields, "text")

\* embeddings.npy is what the embedder makes of the present data.json.
EmbeddedFromData ==
  /\ dataFile # None
  /\ embFile # None
  /\ AcceptedShape(dataFile[1])
  /\ embFile = ProcessJsonData(dataFile[1])

\* C4: for a data.json of an accepted shape, the matrix the embedder builds
\* and the documents the searcher loads from the same file agree: as many
\* loaded documents as rows, row i made from the text of document i, and a
\* search on the pair (for a count k >= 1) succeeds.
C4_EmbedderAndSearcherAgree ==
  (EmbeddedFromData /\ RankLoaded /\ rank[1].top_k >= 1) =>
    /\ rank[1].s.document_ids # None
    /\ Len(RankIds) = Len(RankMatrix)
    /\ \A i \in 1..Len(RankMatrix) : RankMatrix[i] = Embed(RankDocs[i].text)
    /\ rank[1].out.ok

(***************************************************************************)
(* Properties of POST /search and GET /health, read off req and resp.      *)
(***************************************************************************)
IsSearchPost == req # None /\ req[1].method = "POST" /\ req[1].path = "/search"
IsHealth == req # None /\ req[1].path = "/health"
Body == req[1].data
BodyIsDict == Body.type = "dict" /\ DOMAIN Body.fields # {}
HasStrQuery ==
  /\ BodyIsDict
  /\ HasKey(Body.fields, "query")
  /\ Body.fields.query.type = "str"
  /\ Len(Body.fields.query.s) > 0

Rejected400 ==
  /\ resp[1].code = 400
  /\ HasKey(resp[1], "error")
  /\ ~searched

\* C6: with an initialized searcher and a non-empty query, a top_k that is
\* not an integer >= 1 (zero, negative, float, string, boolean, null) is
\* answered 400 with a message and the searcher is not invoked; an absent
\* top_k is searched as 5.
C6_TopKValidated ==
  (IsSearchPost /\ searcher # None /\ HasStrQuery) =>
    IF HasKey(Body.fields, "top_k")
      THEN (~(Body.fields.top_k.type = "int" /\ Body.fields.top_k.n >= 1)) => Rejected400
      ELSE searched /\ rank # None /\ rank[1].top_k = 5

\* C7: with an initialized searcher, POST /search is answered 400 with a
\* message and the searcher is not invoked whenever the body is absent, the
\* query is missing or empty, or the query is not a string.
C7_QueryValidated ==
  (IsSearchPost /\ searcher # None
     /\ \/ Body.type = "null"
        \/ Body.type = "dict" /\ ~HasKey(Body.fields, "query")
        \/ Body.type = "dict" /\ HasKey(Body.fields, "query")
             /\ ~(Body.fields.query.type = "str" /\ Len(Body.fields.query.s) > 0))
    => Rejected400

IsSearchOk == IsSearchPost /\ resp[1].code = 200
\* The text of the document behind result i of the response.
ResultDoc(i) == RankResults[i].doc_data

\* C8 as claimed: every text_preview of a successful response is at most 200
\* characters long and a prefix of the document's text.
C8_PreviewIsPrefix ==
  IsSearchOk =>
    \A i \in 1..Len(resp[1].results) :
      (ResultDoc(i) # None /\ HasKey(ResultDoc(i)[1], "text")) =>
        /\ Len(resp[1].results[i].text_preview) <= PreviewLen
        /\ IsPrefix(resp[1].results[i].text_preview, ResultDoc(i)[1].text)

\* C8 as amended: the text_preview of a document with a non-empty text is the
\* first min(200, length) characters of the text followed by "...", so at
\* most 203 characters; of a document without text it is "N/A".
C8_PreviewIsPrefixPlusEllipsis ==
  IsSearchOk =>
    \A i \in 1..Len(resp[1].results) :
      LET p == resp[1].results[i].text_preview
          d == ResultDoc(i)
      IN IF d # None /\ HasKey(d[1], "text") /\ Len(d[1].text) > 0
           THEN /\ Len(p) = Min(PreviewLen, Len(d[1].text)) + 3
                /\ IsPrefix(SubSeq(p, 1, Len(p) - 3), d[1].text)
                /\ SubSeq(p, Len(p) - 2, Len(p)) = Ellipsis
           ELSE p = NA

\* C8 witness: one response previews a text of exactly 200 characters and a
\* text longer than 200 characters.
C8_Witness ==
  /\ IsSearchOk
  /\ \E i, j \in 1..Len(resp[1].results) :
       /\ ResultDoc(i) # None /\ HasKey(ResultDoc(i)[1], "text")
       /\ ResultDoc(j) # None /\ HasKey(ResultDoc(j)[1], "text")
       /\ Len(ResultDoc(i)[1].text) = PreviewLen
       /\ Len(ResultDoc(j)[1].text) > PreviewLen
       /\ Len(resp[1].results[i].text_preview) = PreviewLen + 3
       /\ Len(resp[1].results[j].text_preview) = PreviewLen + 3

\* The ranker is loaded: a searcher exists and holds both the embeddings and
\* the document metadata.
RankerLoaded ==
  /\ searcher # None
  /\ searcher[1].embeddings # None
  /\ searcher[1].document_data # None

\* C10: /health's searcher_initialized is true exactly when the ranker is
\* loaded; while it is not loaded POST /search answers the 'not initialized'
\* server error; a main program whose initialization failed has exited
\* without serving a request.
C10_HealthTellsLoaded ==
  /\ IsHealth => (resp[1].health.searcher_initialized <=> RankerLoaded)
  /\ (IsSearchPost /\ ~RankerLoaded) =>
       (resp[1].code = 500 /\ resp[1].error = "Document searcher not initialized")
  /\ proc = "exited" => (req = None /\ resp = None)

(***************************************************************************)
(* Frame of request handling.  booted is written only where the searcher   *)
(* is set up (StartMain, ImportModule, CallInitializeSearcher), prevCode   *)
(* only when a response goes out.                                          *)
(***************************************************************************)
\* C11: after startup, whatever requests have been handled (answered 200,
\* 400 or 500), the searcher's embeddings, document data and document ids
\* are as initialization left them, and the response to a request is the
\* one the handler gives on that initial searcher: it does not depend on
\* the requests that came before.
C11_RequestsLeaveSearcher ==
  /\ proc = "serving" => searcher = booted
  /\ IsSearchPost => resp[1] = SearchDocuments(booted, Body, stableSort).resp
  /\ IsHealth => resp[1].health = HealthBody(booted)

\* C11 witness: a search is answered 200 by a loaded searcher right after a
\* request that was answered 500.
C11_Witness ==
  /\ IsSearchPost
  /\ resp[1].code = 200
  /\ resp[1].total_results >= 1
  /\ prevCode = 500
  /\ RankerLoaded
  /\ searcher = booted

====
